---- MODULE Spec2Model ----
(***************************************************************************)
(* near_api/account.py: the Account class.  One Account object is shared   *)
(* by a set of caller threads.  Every public method is a call made by one  *)
(* caller; a call runs line by line and the callers interleave between     *)
(* the bytecode-level reads and writes of self._access_key["nonce"] and    *)
(* at every provider round-trip.                                           *)
(***************************************************************************)
EXTENDS Integers, Sequences, FiniteSets, TLC

(* ------------------------------ bounds -------------------------------- *)
\* number of caller threads sharing the Account
NumCallers == 2
\* total number of method calls begun in one behaviour
MaxCalls == 3

Callers == 1..NumCallers

(* --------------------------- program constants ------------------------ *)
\* account.py:9, counted in units of 10^12 gas
DEFAULT_ATTACHED_GAS == 100
\* account.py:69, the length the reply of send_tx is compared with
TX_HASH_LEN == 44

None == "None"
NoValue == [none |-> TRUE]

(* ------------------------------ inputs -------------------------------- *)
\* the account the object is constructed for (self._account_id)
SelfId == "alice"
AccountIds == {"bob"}
Amounts == {100}
PublicKeys == {None, "ed25519:pk"}
ContractCodes == {"wasm"}
MethodNames == {"set_value"}
\* args of a contract call: a dict, as the sequence of its (key, int) items
ArgDicts == {<< <<"x", 1>> >>}
\* nonce values get_access_key may answer at construction
InitialNonces == {0, 5}
\* snapshots get_account may answer
AccountStates == {[amount |-> 10], [amount |-> 20]}

\* A base58 text is the sequence of its characters' alphabet indices 0..57;
\* 58 stands for a character outside the alphabet.
B58Base == 58
BlockHashes == {<<0, 2, 5>>, <<1, 0>>, <<3, 58>>}

\* replies of send_tx: the text, and whether the node meant it as a handle
SendTxReplies ==
  { [text |-> "9xQeWvG816bUx9EPjHmaT23yvVM2ZWbrrpZb9PusVFin", handle |-> TRUE],
    [text |-> "Error: transaction has expired, resubmit it.", handle |-> FALSE],
    [text |-> "Error: invalid nonce", handle |-> FALSE],
    [text |-> "4vJ9JU1bJJE96FWSJKvHsmmFADCg4gpZQff4P3bkLKi", handle |-> TRUE] }

Outcome(logs) == [outcome |-> [logs |-> logs]]

\* results of send_tx_and_wait
WaitResults ==
  { [status |-> [SuccessValue |-> ""],
     transaction_outcome |-> Outcome(<<"t1", "t2">>),
     receipts_outcome |-> << Outcome(<<"r1">>), Outcome(<<>>), Outcome(<<"r3", "r4">>) >>],
    [status |-> [SuccessValue |-> "Ig=="],
     transaction_outcome |-> Outcome(<<>>),
     receipts_outcome |-> << >>],
    [status |-> [Failure |-> "ActionError"],
     transaction_outcome |-> Outcome(<<"t1">>),
     receipts_outcome |-> << Outcome(<<"r1", "r2">>), Outcome(<<"r3">>) >>],
    [status |-> [Failure |-> "InvalidTxError"],
     transaction_outcome |-> Outcome(<<>>),
     receipts_outcome |-> << >>] }

\* responses of view_call; result is a list of byte values
ViewResponses ==
  { [result |-> <<52, 50>>, logs |-> <<>>],
    [result |-> <<34, 72, 105, 34>>, logs |-> <<>>],
    [result |-> <<72, 105>>, logs |-> <<>>],
    [result |-> <<34, 195, 169, 34>>, logs |-> <<>>],
    [error |-> "wasm execution failed", logs |-> <<>>],
    [error |-> "method not found", result |-> <<52, 50>>] }

VARIABLES
  nonce,          \* self._access_key["nonce"]
  account,        \* self._account
  pc,             \* per caller: where its call stands
  req,            \* per caller: the call (method, receiver_id, actions)
  loaded,         \* per caller: the value read by the load half of  += 1
  block_hash,     \* per caller: local block_hash
  serialized_tx,  \* per caller: local serialized_tx
  result,         \* per caller: local result
  remote,         \* per caller: what the provider answered, as it answered it
  ret,            \* per caller: how the call ended
  steps,          \* per caller: the external calls and effects of the call, in order
  printed,        \* per caller: the lines the call printed
  before,         \* per caller: the nonce when the call began
  signed,         \* the nonces handed to sign_and_serialize_transaction, in order
  started,        \* number of calls begun
  submitted,      \* number of submissions begun
  aborted,        \* the nonces of the submissions that failed before signing ended
  nonce0,         \* the nonce at construction
  constructed     \* how far Account.__init__ got, and what get_access_key answered

vars == << nonce, account, pc, req, loaded, block_hash, serialized_tx, result,
           remote, ret, steps, printed, before, signed, started, submitted,
           aborted, nonce0, constructed >>

(* ------------------------- pure helpers ------------------------------- *)
\* base58.b58decode (account.py:37, :65): the leading zero digits become
\* zero bytes, the rest is the big-endian number; a character outside the
\* alphabet raises ValueError.
RECURSIVE B58Value(_, _)
B58Value(text, acc) ==
  IF text = << >> THEN acc
  ELSE B58Value(Tail(text), acc * B58Base + Head(text))

RECURSIVE B58Zeros(_)
B58Zeros(text) ==
  IF text = << >> \/ Head(text) # 0 THEN 0 ELSE 1 + B58Zeros(Tail(text))

b58decode(text) ==
  IF \E i \in 1..Len(text) : text[i] >= B58Base
  THEN [ok |-> FALSE, exc |-> "ValueError"]
  ELSE [ok |-> TRUE, zeros |-> B58Zeros(text), value |-> B58Value(text, 0)]

\* json.dumps(args).encode('utf8') (account.py:108 and the like): the text
\* of the dict, key by key in insertion order, as ASCII bytes
RECURSIVE JsonItems(_)
JsonItems(items) ==
  IF items = << >> THEN ""
  ELSE "\"" \o Head(items)[1] \o "\": " \o ToString(Head(items)[2])
       \o (IF Len(items) > 1 THEN ", " ELSE "") \o JsonItems(Tail(items))

json_dumps_encode(args) == [bytes |-> "{" \o JsonItems(args) \o "}"]

\* itertools.chain([result['transaction_outcome']], result['receipts_outcome'])
\* with the inner loop over outcome['outcome']['logs'] (account.py:41-43)
RECURSIVE FlattenLogs(_)
FlattenLogs(outcomes) ==
  IF outcomes = << >> THEN << >>
  ELSE Head(outcomes).outcome.logs \o FlattenLogs(Tail(outcomes))

\* the transaction's own outcome left out of the chain
LogLinesReceiptsOnly(res) == FlattenLogs(res.receipts_outcome)

LogLines(res) == FlattenLogs(<< res.transaction_outcome >> \o res.receipts_outcome)

(* --------------------------- action builders -------------------------- *)
create_transfer_action(amount) == [kind |-> "Transfer", deposit |-> amount]
create_function_call_action(method_name, args, gas, deposit) ==
  [kind |-> "FunctionCall", method_name |-> method_name, args |-> args,
   gas |-> gas, deposit |-> deposit]
create_create_account_action == [kind |-> "CreateAccount"]
create_full_access_key_action(pk) == [kind |-> "AddKey", public_key |-> pk]
create_delete_access_key_action(pk) == [kind |-> "DeleteKey", public_key |-> pk]
create_delete_account_action(beneficiary_id) ==
  [kind |-> "DeleteAccount", beneficiary_id |-> beneficiary_id]
create_deploy_contract_action(code) == [kind |-> "DeployContract", code |-> code]
create_staking_action(pk, amount) ==
  [kind |-> "Stake", public_key |-> pk, stake |-> amount]

(* ------------------------------ methods ------------------------------- *)
\* What each public method hands to _sign_and_submit_tx (wait) or to
\* _sign_and_submit_tx_async (async).  a is the tuple of arguments.
Submit(protocol, receiver_id, actions) ==
  [protocol |-> protocol, receiver_id |-> receiver_id, actions |-> actions]

\* the key added whether or not one was given
OptionalKeyAlways(pk) == << create_full_access_key_action(pk) >>

OptionalKey(pk) == IF pk # None THEN << create_full_access_key_action(pk) >> ELSE << >>

send_money(a) ==
  Submit("wait", a.account_id, << create_transfer_action(a.amount) >>)
send_money_async(a) ==
  Submit("async", a.account_id, << create_transfer_action(a.amount) >>)

function_call(a) ==
  Submit("wait", a.account_id,
         << create_function_call_action(a.method_name, json_dumps_encode(a.args), a.gas, a.deposit) >>)
function_call_async(a) ==
  Submit("async", a.account_id,
         << create_function_call_action(a.method_name, json_dumps_encode(a.args), a.gas, a.deposit) >>)

create_account(a) ==
  Submit("wait", a.account_id,
         << create_create_account_action,
            create_full_access_key_action(a.public_key),
            create_transfer_action(a.amount) >>)
\* the copy with the transfer put before the key
create_account_async_reordered(a) ==
  Submit("async", a.account_id,
         << create_create_account_action,
            create_transfer_action(a.amount),
            create_full_access_key_action(a.public_key) >>)
create_account_async(a) ==
  Submit("async", a.account_id,
         << create_create_account_action,
            create_full_access_key_action(a.public_key),
            create_transfer_action(a.amount) >>)

delete_account(a) ==
  Submit("wait", SelfId, << create_delete_account_action(a.account_id) >>)
delete_account_async(a) ==
  Submit("async", SelfId, << create_delete_account_action(a.account_id) >>)

create_full_access_key(a) ==
  Submit("wait", SelfId, << create_full_access_key_action(a.public_key) >>)
create_full_access_key_async(a) ==
  Submit("async", SelfId, << create_full_access_key_action(a.public_key) >>)

delete_access_key(a) ==
  Submit("wait", SelfId, << create_delete_access_key_action(a.public_key) >>)
delete_access_key_async(a) ==
  Submit("async", SelfId, << create_delete_access_key_action(a.public_key) >>)

deploy_contract(a) ==
  Submit("wait", SelfId, << create_deploy_contract_action(a.contract_code) >>)
deploy_contract_async(a) ==
  Submit("async", SelfId, << create_deploy_contract_action(a.contract_code) >>)

deploy_and_init_contract(a) ==
  Submit("wait", SelfId,
         << create_deploy_contract_action(a.contract_code),
            create_function_call_action(a.init_method_name, json_dumps_encode(a.args), a.gas, 0) >>)
deploy_and_init_contract_async(a) ==
  Submit("async", SelfId,
         << create_deploy_contract_action(a.contract_code),
            create_function_call_action(a.init_method_name, json_dumps_encode(a.args), a.gas, 0) >>)

stake(a) ==
  Submit("wait", SelfId, << create_staking_action(a.public_key, a.amount) >>)
stake_async(a) ==
  Submit("async", SelfId, << create_staking_action(a.public_key, a.amount) >>)

create_and_deploy_contract(a) ==
  Submit("wait", a.account_id,
         << create_create_account_action,
            create_transfer_action(a.amount),
            create_deploy_contract_action(a.contract_code) >> \o OptionalKey(a.public_key))
create_and_deploy_contract_async(a) ==
  Submit("async", a.account_id,
         << create_create_account_action,
            create_transfer_action(a.amount),
            create_deploy_contract_action(a.contract_code) >> \o OptionalKey(a.public_key))

create_deploy_and_init_contract(a) ==
  Submit("wait", a.account_id,
         << create_create_account_action,
            create_transfer_action(a.amount),
            create_deploy_contract_action(a.contract_code),
            create_function_call_action(a.init_method_name, json_dumps_encode(a.args), a.gas, 0)
         >> \o OptionalKey(a.public_key))
create_deploy_and_init_contract_async(a) ==
  Submit("async", a.account_id,
         << create_create_account_action,
            create_transfer_action(a.amount),
            create_deploy_contract_action(a.contract_code),
            create_function_call_action(a.init_method_name, json_dumps_encode(a.args), a.gas, 0)
         >> \o OptionalKey(a.public_key))

BlockingMethods ==
  { "send_money", "function_call", "create_account", "delete_account",
    "create_full_access_key", "delete_access_key", "deploy_contract",
    "deploy_and_init_contract", "stake", "create_and_deploy_contract",
    "create_deploy_and_init_contract" }

AsyncName(m) == m \o "_async"

AsyncMethods == { AsyncName(m) : m \in BlockingMethods }

Methods == BlockingMethods \cup AsyncMethods

Dispatch(m, a) ==
  CASE m = "send_money" -> send_money(a)
    [] m = "send_money_async" -> send_money_async(a)
    [] m = "function_call" -> function_call(a)
    [] m = "function_call_async" -> function_call_async(a)
    [] m = "create_account" -> create_account(a)
    [] m = "create_account_async" -> create_account_async(a)
    [] m = "delete_account" -> delete_account(a)
    [] m = "delete_account_async" -> delete_account_async(a)
    [] m = "create_full_access_key" -> create_full_access_key(a)
    [] m = "create_full_access_key_async" -> create_full_access_key_async(a)
    [] m = "delete_access_key" -> delete_access_key(a)
    [] m = "delete_access_key_async" -> delete_access_key_async(a)
    [] m = "deploy_contract" -> deploy_contract(a)
    [] m = "deploy_contract_async" -> deploy_contract_async(a)
    [] m = "deploy_and_init_contract" -> deploy_and_init_contract(a)
    [] m = "deploy_and_init_contract_async" -> deploy_and_init_contract_async(a)
    [] m = "stake" -> stake(a)
    [] m = "stake_async" -> stake_async(a)
    [] m = "create_and_deploy_contract" -> create_and_deploy_contract(a)
    [] m = "create_and_deploy_contract_async" -> create_and_deploy_contract_async(a)
    [] m = "create_deploy_and_init_contract" -> create_deploy_and_init_contract(a)
    [] m = "create_deploy_and_init_contract_async" -> create_deploy_and_init_contract_async(a)

\* the argument tuples the callers draw from
ArgTuples ==
  [ account_id : AccountIds, amount : Amounts, method_name : MethodNames,
    args : ArgDicts, gas : {DEFAULT_ATTACHED_GAS}, public_key : PublicKeys,
    contract_code : ContractCodes, init_method_name : {"new"}, deposit : {0} ]


\* chr(x) for each byte, joined (account.py:223): byte x becomes the one
\* character with code point x
RECURSIVE ChrJoin(_)
ChrJoin(bytes) ==
  IF bytes = << >> THEN << >> ELSE << [cp |-> Head(bytes)] >> \o ChrJoin(Tail(bytes))

IsDigit(c) == c.cp >= 48 /\ c.cp <= 57

RECURSIVE DigitsValue(_, _)
DigitsValue(text, acc) ==
  IF text = << >> THEN acc
  ELSE DigitsValue(Tail(text), acc * 10 + (Head(text).cp - 48))

\* json.loads (account.py:223) on the documents the model's contracts
\* answer: a number, or a string without escapes; anything else is a
\* JSONDecodeError
json_loads(text) ==
  IF text # << >> /\ (\A i \in 1..Len(text) : IsDigit(text[i]))
     /\ (Len(text) = 1 \/ text[1].cp # 48)
  THEN [ok |-> TRUE, value |-> [number |-> DigitsValue(text, 0)]]
  ELSE IF Len(text) >= 2 /\ text[1].cp = 34 /\ text[Len(text)].cp = 34
          /\ (\A i \in 2..(Len(text) - 1) :
                text[i].cp # 34 /\ text[i].cp # 92 /\ text[i].cp >= 32)
  THEN [ok |-> TRUE, value |-> [string |-> SubSeq(text, 2, Len(text) - 1)]]
  ELSE [ok |-> FALSE, exc |-> "JSONDecodeError"]

\* transactions.sign_and_serialize_transaction: the signed buffer, as what
\* decoding it gives back
sign_and_serialize_transaction(receiver_id, n, actions, hash, signer) ==
  [signer_id |-> signer, receiver_id |-> receiver_id, nonce |-> n,
   actions |-> actions, block_hash |-> hash]

(* ------------------------- state of a caller -------------------------- *)
NoRet == [kind |-> "none"]
Returned(v) == [kind |-> "return", value |-> v]
Raised(exc, v) == [kind |-> "raise", exc |-> exc, value |-> v]

NoReq == [method |-> "none"]

(* ------------------------------- Init --------------------------------- *)
\* the key the signer holds (account.py:32, encoded_public_key())
SignerKey == "ed25519:signer"

NotConstructed(stage) == [stage |-> stage, access_key |-> NoValue]

\* Account(provider, signer, account_id) is called: account.py:28-30 have run
Init ==
  /\ constructed = NotConstructed("get_account")
  /\ nonce = 0
  /\ nonce0 = 0
  /\ account = NoValue
  /\ pc = [t \in Callers |-> "idle"]
  /\ req = [t \in Callers |-> NoReq]
  /\ loaded = [t \in Callers |-> 0]
  /\ block_hash = [t \in Callers |-> NoValue]
  /\ serialized_tx = [t \in Callers |-> NoValue]
  /\ result = [t \in Callers |-> NoValue]
  /\ remote = [t \in Callers |-> NoValue]
  /\ ret = [t \in Callers |-> NoRet]
  /\ steps = [t \in Callers |-> << >>]
  /\ printed = [t \in Callers |-> << >>]
  /\ before = [t \in Callers |-> 0]
  /\ signed = << >>
  /\ started = 0
  /\ submitted = 0
  /\ aborted = {}

\* account.py:31
InitGetAccount ==
  /\ constructed.stage = "get_account"
  /\ \/ /\ constructed' = NotConstructed("failed")
        /\ UNCHANGED account
     \/ \E s \in AccountStates :
          /\ account' = s
          /\ constructed' = NotConstructed("get_access_key")
  /\ UNCHANGED << nonce, pc, req, loaded, block_hash, serialized_tx, result,
                  remote, ret, steps, printed, before, signed, started,
                  submitted, aborted, nonce0 >>

\* a failed lookup answered with an empty key
InitGetAccessKeyLenient ==
  /\ constructed.stage = "get_access_key"
  /\ \/ /\ constructed' = NotConstructed("live")
        /\ UNCHANGED << nonce, nonce0 >>
     \/ \E n \in InitialNonces :
          /\ nonce' = n
          /\ nonce0' = n
          /\ constructed' = [stage |-> "live",
                             access_key |-> [nonce |-> n, public_key |-> SignerKey]]
  /\ UNCHANGED << account, pc, req, loaded, block_hash, serialized_tx, result,
                  remote, ret, steps, printed, before, signed, started,
                  submitted, aborted >>

\* account.py:32
InitGetAccessKey ==
  /\ constructed.stage = "get_access_key"
  /\ \/ /\ constructed' = NotConstructed("failed")
        /\ UNCHANGED << nonce, nonce0 >>
     \/ \E n \in InitialNonces :
          /\ nonce' = n
          /\ nonce0' = n
          /\ constructed' = [stage |-> "live",
                             access_key |-> [nonce |-> n, public_key |-> SignerKey]]
  /\ UNCHANGED << account, pc, req, loaded, block_hash, serialized_tx, result,
                  remote, ret, steps, printed, before, signed, started,
                  submitted, aborted >>

\* a caller enters a method of the constructed object: fresh locals
Enter(t, r, first) ==
  /\ constructed.stage = "live"
  /\ pc[t] = "idle"
  /\ started < MaxCalls
  /\ started' = started + 1
  /\ req' = [req EXCEPT ![t] = r]
  /\ pc' = [pc EXCEPT ![t] = first]
  /\ before' = [before EXCEPT ![t] = nonce]
  /\ UNCHANGED << nonce, account, loaded, block_hash, serialized_tx, result,
                  remote, ret, steps, printed, signed, aborted, nonce0, constructed >>

\* the call ends: the caller holds ret[t]
Finish(t, r, step) ==
  /\ pc' = [pc EXCEPT ![t] = "done"]
  /\ ret' = [ret EXCEPT ![t] = r]
  /\ steps' = [steps EXCEPT ![t] = Append(@, step)]

\* the caller has taken the outcome; the frame is gone
Leave(t) ==
  /\ pc[t] = "done"
  /\ pc' = [pc EXCEPT ![t] = "idle"]
  /\ req' = [req EXCEPT ![t] = NoReq]
  /\ loaded' = [loaded EXCEPT ![t] = 0]
  /\ block_hash' = [block_hash EXCEPT ![t] = NoValue]
  /\ serialized_tx' = [serialized_tx EXCEPT ![t] = NoValue]
  /\ result' = [result EXCEPT ![t] = NoValue]
  /\ remote' = [remote EXCEPT ![t] = NoValue]
  /\ ret' = [ret EXCEPT ![t] = NoRet]
  /\ steps' = [steps EXCEPT ![t] = << >>]
  /\ printed' = [printed EXCEPT ![t] = << >>]
  /\ before' = [before EXCEPT ![t] = 0]
  /\ UNCHANGED << nonce, account, signed, started, submitted, aborted, nonce0, constructed >>

(* ---------------- _sign_and_submit_tx / _sign_and_submit_tx_async ----- *)
\* a public method builds its actions and enters the submission
Call(t, m, a) ==
  /\ Enter(t, [method |-> m] @@ Dispatch(m, a), "load")
  /\ submitted' = submitted + 1

\* account.py:35 / :63, the read half of  self._access_key["nonce"] += 1
NonceLoad(t) ==
  /\ pc[t] = "load"
  /\ loaded' = [loaded EXCEPT ![t] = nonce]
  /\ pc' = [pc EXCEPT ![t] = "store"]
  /\ UNCHANGED << nonce, account, req, block_hash, serialized_tx, result,
                  remote, ret, steps, printed, before, signed, started, submitted, aborted, nonce0, constructed >>

\* the advance forgotten
IncrementedStuck(n) == n

\* the advance made twice
IncrementedTwice(n) == n + 2

\* account.py:35 / :63, the value  += 1  writes back
Incremented(n) == n + 1

\* account.py:35 / :63, the write half
NonceStore(t) ==
  /\ pc[t] = "store"
  /\ nonce' = Incremented(loaded[t])
  /\ pc' = [pc EXCEPT ![t] = "status"]
  /\ steps' = [steps EXCEPT ![t] = Append(@, "advance")]
  /\ UNCHANGED << account, req, loaded, block_hash, serialized_tx, result,
                  remote, ret, printed, before, signed, started, submitted, aborted, nonce0, constructed >>

\* the failure undone by taking the advance back
AssemblyFailedRollback(t, exc, v, step) ==
  /\ Finish(t, Raised(exc, v), step)
  /\ aborted' = aborted \cup {nonce}
  /\ nonce' = nonce - 1

\* account.py:36-39 / :64-67: an exception of get_status, b58decode or
\* sign_and_serialize_transaction leaves the method; nothing is caught and
\* nothing is undone
AssemblyFailed(t, exc, v, step) ==
  /\ Finish(t, Raised(exc, v), step)
  /\ aborted' = aborted \cup {nonce}
  /\ nonce' = nonce

\* account.py:36-37 / :64-65: get_status, then b58decode of the hash
GetStatus(t) ==
  /\ pc[t] = "status"
  /\ \/ /\ AssemblyFailed(t, "ProviderError", "get_status", "get_status")
        /\ UNCHANGED block_hash
     \/ \E h \in BlockHashes :
          IF b58decode(h).ok
          THEN /\ block_hash' = [block_hash EXCEPT ![t] = b58decode(h)]
               /\ pc' = [pc EXCEPT ![t] = "sign"]
               /\ steps' = [steps EXCEPT ![t] = Append(@, "get_status")]
               /\ UNCHANGED << nonce, ret, aborted >>
          ELSE /\ AssemblyFailed(t, b58decode(h).exc, h, "get_status")
               /\ UNCHANGED block_hash
  /\ UNCHANGED << account, req, loaded, serialized_tx, result, remote,
                  printed, before, signed, started, submitted, nonce0, constructed >>

\* the transaction signed over a hash kept from before, not this call's
SignCachedHash(t) ==
  /\ pc[t] = "sign"
  /\ signed' = Append(signed, nonce)
  /\ \/ /\ AssemblyFailed(t, "SignError", "sign", "sign")
        /\ UNCHANGED serialized_tx
     \/ /\ serialized_tx' = [serialized_tx EXCEPT ![t] =
              sign_and_serialize_transaction(req[t].receiver_id, nonce,
                                             req[t].actions, b58decode(<< 1, 0 >>), SelfId)]
        /\ pc' = [pc EXCEPT ![t] = "send"]
        /\ steps' = [steps EXCEPT ![t] = Append(@, "sign")]
        /\ UNCHANGED << nonce, ret, aborted >>
  /\ UNCHANGED << account, req, loaded, block_hash, result, remote,
                  printed, before, started, submitted, nonce0, constructed >>

\* account.py:38-39 / :66-67: the nonce is read again here, as an argument
Sign(t) ==
  /\ pc[t] = "sign"
  /\ signed' = Append(signed, nonce)
  /\ \/ /\ AssemblyFailed(t, "SignError", "sign", "sign")
        /\ UNCHANGED serialized_tx
     \/ /\ serialized_tx' = [serialized_tx EXCEPT ![t] =
              sign_and_serialize_transaction(req[t].receiver_id, nonce,
                                             req[t].actions, block_hash[t], SelfId)]
        /\ pc' = [pc EXCEPT ![t] = "send"]
        /\ steps' = [steps EXCEPT ![t] = Append(@, "sign")]
        /\ UNCHANGED << nonce, ret, aborted >>
  /\ UNCHANGED << account, req, loaded, block_hash, result, remote,
                  printed, before, started, submitted, nonce0, constructed >>

\* the send made again after a transport error
SendTxAndWaitRetry(t) ==
  /\ pc[t] = "send"
  /\ req[t].protocol = "wait"
  /\ \/ /\ steps' = [steps EXCEPT ![t] = Append(@, "send_tx_and_wait")]
        /\ UNCHANGED << pc, ret, result, remote >>
     \/ \E r \in WaitResults :
          /\ result' = [result EXCEPT ![t] = r]
          /\ remote' = [remote EXCEPT ![t] = r]
          /\ pc' = [pc EXCEPT ![t] = "logs"]
          /\ steps' = [steps EXCEPT ![t] = Append(@, "send_tx_and_wait")]
          /\ UNCHANGED ret
  /\ UNCHANGED << nonce, account, req, loaded, block_hash, serialized_tx,
                  printed, before, signed, started, submitted, aborted, nonce0, constructed >>

\* account.py:40
SendTxAndWait(t) ==
  /\ pc[t] = "send"
  /\ req[t].protocol = "wait"
  /\ \/ /\ Finish(t, Raised("ProviderError", "send_tx_and_wait"), "send_tx_and_wait")
        /\ UNCHANGED << result, remote >>
     \/ \E r \in WaitResults :
          /\ result' = [result EXCEPT ![t] = r]
          /\ remote' = [remote EXCEPT ![t] = r]
          /\ pc' = [pc EXCEPT ![t] = "logs"]
          /\ steps' = [steps EXCEPT ![t] = Append(@, "send_tx_and_wait")]
          /\ UNCHANGED ret
  /\ UNCHANGED << nonce, account, req, loaded, block_hash, serialized_tx,
                  printed, before, signed, started, submitted, aborted, nonce0, constructed >>

RECURSIVE PrintAll(_)
PrintAll(lines) ==
  IF lines = << >> THEN << >>
  ELSE << "Log: " \o Head(lines) >> \o PrintAll(Tail(lines))

\* the logs printed only once the status is known not to be a Failure
PrintLogsUnlessFailure(t) ==
  /\ pc[t] = "logs"
  /\ printed' = [printed EXCEPT ![t] =
        IF "Failure" \in DOMAIN result[t].status THEN @
        ELSE @ \o PrintAll(LogLines(result[t]))]
  /\ pc' = [pc EXCEPT ![t] = "check_status"]
  /\ steps' = [steps EXCEPT ![t] = Append(@, "print")]
  /\ UNCHANGED << nonce, account, req, loaded, block_hash, serialized_tx,
                  result, remote, ret, before, signed, started, submitted,
                  aborted, nonce0, constructed >>

\* account.py:41-43
PrintLogs(t) ==
  /\ pc[t] = "logs"
  /\ printed' = [printed EXCEPT ![t] = @ \o PrintAll(LogLines(result[t]))]
  /\ pc' = [pc EXCEPT ![t] = "check_status"]
  /\ steps' = [steps EXCEPT ![t] = Append(@, "print")]
  /\ UNCHANGED << nonce, account, req, loaded, block_hash, serialized_tx,
                  result, remote, ret, before, signed, started, submitted, aborted, nonce0, constructed >>

\* the test made on the result itself instead of on its status
IsFailureTopLevel(res) == "Failure" \in DOMAIN res

\* account.py:44, the test on the result
IsFailure(res) == "Failure" \in DOMAIN res.status

\* account.py:44-46
CheckStatus(t) ==
  /\ pc[t] = "check_status"
  /\ IF IsFailure(result[t])
     THEN Finish(t, Raised("TransactionError", result[t].status.Failure), "raise")
     ELSE Finish(t, Returned(result[t]), "return")
  /\ UNCHANGED << nonce, account, req, loaded, block_hash, serialized_tx,
                  result, remote, printed, before, signed, started, submitted, aborted, nonce0, constructed >>

\* account.py:68
SendTx(t) ==
  /\ pc[t] = "send"
  /\ req[t].protocol = "async"
  /\ \/ /\ Finish(t, Raised("ProviderError", "send_tx"), "send_tx")
        /\ UNCHANGED << result, remote >>
     \/ \E r \in SendTxReplies :
          /\ result' = [result EXCEPT ![t] = r.text]
          /\ remote' = [remote EXCEPT ![t] = r]
          /\ pc' = [pc EXCEPT ![t] = "check_reply"]
          /\ steps' = [steps EXCEPT ![t] = Append(@, "send_tx")]
          /\ UNCHANGED ret
  /\ UNCHANGED << nonce, account, req, loaded, block_hash, serialized_tx,
                  printed, before, signed, started, submitted, aborted, nonce0, constructed >>

\* account.py:69, the test on the reply
ReplyRejected(reply) == Len(reply) = TX_HASH_LEN

\* account.py:69-72
CheckReply(t) ==
  /\ pc[t] = "check_reply"
  /\ IF ReplyRejected(result[t])
     THEN Finish(t, Raised("TransactionError",
                 "Unable to sign and submit transaction. tx_hash is \"" \o result[t] \o "\""),
                 "raise")
     ELSE Finish(t, Returned(result[t]), "return")
  /\ UNCHANGED << nonce, account, req, loaded, block_hash, serialized_tx,
                  result, remote, printed, before, signed, started, submitted, aborted, nonce0, constructed >>

(* ------------------------------ view_function ------------------------- *)
\* the view made through the submission path
ViewFunctionViaSubmit(t, a) ==
  /\ Enter(t, [method |-> "view_function", protocol |-> "wait",
               receiver_id |-> a.account_id, actions |-> << >>], "load")
  /\ UNCHANGED submitted

\* account.py:218
ViewFunction(t, a) ==
  /\ Enter(t, [method |-> "view_function", contract_id |-> a.account_id,
               method_name |-> a.method_name, args |-> json_dumps_encode(a.args)],
           "view_call")
  /\ UNCHANGED submitted

\* account.py:220
ViewCall(t) ==
  /\ pc[t] = "view_call"
  /\ \/ /\ Finish(t, Raised("ProviderError", "view_call"), "view_call")
        /\ UNCHANGED << result, remote >>
     \/ \E r \in ViewResponses :
          /\ result' = [result EXCEPT ![t] = r]
          /\ remote' = [remote EXCEPT ![t] = r]
          /\ pc' = [pc EXCEPT ![t] = "view_check"]
          /\ steps' = [steps EXCEPT ![t] = Append(@, "view_call")]
          /\ UNCHANGED ret
  /\ UNCHANGED << nonce, account, req, loaded, block_hash, serialized_tx,
                  printed, before, signed, started, submitted, aborted, nonce0, constructed >>

\* the text account.py:223 hands to json.loads
ViewText(bytes) == ChrJoin(bytes)

\* the error looked at only when no result came with it
HasErrorWithoutResult(res) == "error" \in DOMAIN res /\ "result" \notin DOMAIN res

\* account.py:221, the test on the response
HasError(res) == "error" \in DOMAIN res

\* account.py:221-224
ViewCheck(t) ==
  /\ pc[t] = "view_check"
  /\ IF HasError(result[t])
     THEN /\ Finish(t, Raised("ViewFunctionError", result[t].error), "raise")
          /\ UNCHANGED result
     ELSE LET parsed == json_loads(ViewText(result[t].result)) IN
          IF parsed.ok
          THEN /\ result' = [result EXCEPT ![t] = [@ EXCEPT !.result = parsed.value]]
               /\ pc' = [pc EXCEPT ![t] = "done"]
               /\ ret' = [ret EXCEPT ![t] = Returned(result'[t])]
               /\ steps' = [steps EXCEPT ![t] = @ \o << "decode", "return" >>]
          ELSE /\ pc' = [pc EXCEPT ![t] = "done"]
               /\ ret' = [ret EXCEPT ![t] = Raised(parsed.exc, "json.loads")]
               /\ steps' = [steps EXCEPT ![t] = @ \o << "decode", "raise" >>]
               /\ UNCHANGED result
  /\ UNCHANGED << nonce, account, req, loaded, block_hash, serialized_tx,
                  remote, printed, before, signed, started, submitted, aborted, nonce0, constructed >>

(* ------------------------------ fetch_state --------------------------- *)
\* account.py:94
FetchStateCall(t) ==
  /\ Enter(t, [method |-> "fetch_state"], "get_account")
  /\ UNCHANGED submitted

\* a refresh that also re-reads the access key
FetchStateRefreshKey(t) ==
  /\ pc[t] = "get_account"
  /\ \/ /\ Finish(t, Raised("ProviderError", "get_account"), "get_account")
        /\ UNCHANGED << account, nonce >>
     \/ \E s \in AccountStates :
          /\ account' = s
          /\ nonce' = nonce0
          /\ Finish(t, Returned(None), "get_account")
  /\ UNCHANGED << req, loaded, block_hash, serialized_tx, result,
                  remote, printed, before, signed, started, submitted, aborted, nonce0, constructed >>

\* account.py:96
FetchState(t) ==
  /\ pc[t] = "get_account"
  /\ \/ /\ Finish(t, Raised("ProviderError", "get_account"), "get_account")
        /\ UNCHANGED account
     \/ \E s \in AccountStates :
          /\ account' = s
          /\ Finish(t, Returned(None), "get_account")
  /\ UNCHANGED << nonce, req, loaded, block_hash, serialized_tx, result,
                  remote, printed, before, signed, started, submitted, aborted, nonce0, constructed >>

(* --------------------------- specifications --------------------------- *)
\* the steps of a call under way
Step(t) ==
  \/ NonceLoad(t)
  \/ NonceStore(t)
  \/ GetStatus(t)
  \/ Sign(t)
  \/ SendTxAndWait(t)
  \/ PrintLogs(t)
  \/ CheckStatus(t)
  \/ SendTx(t)
  \/ CheckReply(t)
  \/ ViewCall(t)
  \/ ViewCheck(t)
  \/ FetchState(t)
  \/ Leave(t)

\* a caller calls a method of the Account
Begin(t) ==
  \/ \E m \in Methods, a \in ArgTuples : Call(t, m, a)
  \/ \E a \in ArgTuples : ViewFunction(t, a)
  \/ FetchStateCall(t)

\* The interleavings of two submissions do not depend on which method built
\* the action list: overlapping callers draw from one blocking and one
\* non-blocking method, besides view_function and fetch_state.
OverlapMethods == {"send_money", "function_call_async"}

BeginOverlap(t) ==
  \/ \E m \in OverlapMethods, a \in ArgTuples : Call(t, m, a)
  \/ \E a \in ArgTuples : ViewFunction(t, a)
  \/ FetchStateCall(t)

\* callers on parallel threads: calls overlap freely
Next ==
  \/ InitGetAccount
  \/ InitGetAccessKey
  \/ \E t \in Callers : BeginOverlap(t) \/ Step(t)

Spec == Init /\ [][Next]_vars

\* calls issued one at a time: a call begins only when none is under way
Quiet == \A t \in Callers : pc[t] = "idle"

NextSeq ==
  \/ InitGetAccount
  \/ InitGetAccessKey
  \/ \E t \in Callers : (Quiet /\ Begin(t)) \/ Step(t)

SpecSeq == Init /\ [][NextSeq]_vars

(* ------------------------------ properties ---------------------------- *)
Last(seq) == seq[Len(seq)]
Has(seq, x) == \E i \in 1..Len(seq) : seq[i] = x
Count(seq, x) == Cardinality({i \in 1..Len(seq) : seq[i] = x})
Done(t) == pc[t] = "done"
IsSubmission(t) == req[t].method \in Methods
IsBlocking(t) == req[t].method \in BlockingMethods
IsAsync(t) == req[t].method \in AsyncMethods
\* the call of t got an answer to its send
Answered(t) == remote[t] # NoValue
\* the call of t failed in get_status, b58decode or signing
AssemblyAborted(t) ==
  /\ Done(t) /\ IsSubmission(t) /\ ret[t].kind = "raise"
  /\ Last(steps[t]) \in {"get_status", "sign"}

\* C1: submissions issued one at a time hand strictly increasing nonces to
\* sign_and_serialize_transaction, whatever the methods and their outcomes.
C1_NoncesStrictlyIncrease ==
  \A i \in 1..(Len(signed) - 1) : signed[i] < signed[i + 1]

C1_Witness ==
  /\ Len(signed) = 3
  /\ aborted # {}
  /\ \E t \in Callers : Done(t) /\ IsAsync(t) /\ ret[t].kind = "return"

\* C2: two submissions under way at once never hold transactions signed with
\* the same nonce.
C2_NoSharedNonce ==
  \A t, u \in Callers :
    (t # u /\ serialized_tx[t] # NoValue /\ serialized_tx[u] # NoValue)
    => serialized_tx[t].nonce # serialized_tx[u].nonce

\* C3: a non-blocking call whose send_tx reply is a 44-character handle
\* returns exactly that handle and raises nothing.
C3_HandleReturned ==
  \A t \in Callers :
    ( /\ Done(t) /\ IsAsync(t) /\ Answered(t)
      /\ remote[t].handle /\ Len(remote[t].text) = 44 )
    => ret[t].kind = "return" /\ ret[t].value = remote[t].text

\* C4: a non-blocking call whose send_tx reply is an in-band error string ends
\* in TransactionError and never returns the reply, whatever its length.
C4_ErrorReplyRaises ==
  \A t \in Callers :
    (Done(t) /\ IsAsync(t) /\ Answered(t) /\ ~remote[t].handle)
    => ret[t].kind = "raise" /\ ret[t].exc = "TransactionError"

\* C5: a blocking call whose result carries a Failure status raises
\* TransactionError with exactly that payload, returns nothing, and after the
\* send makes no provider call and no nonce change.
C5_FailureRaises ==
  \A t \in Callers :
    ( /\ Done(t) /\ IsBlocking(t) /\ Answered(t)
      /\ "Failure" \in DOMAIN remote[t].status )
    => /\ ret[t].kind = "raise"
       /\ ret[t].exc = "TransactionError"
       /\ ret[t].value = remote[t].status.Failure
       /\ steps[t] = << "advance", "get_status", "sign", "send_tx_and_wait",
                        "print", "raise" >>
       /\ nonce = serialized_tx[t].nonce

C5_Witness ==
  \E t \in Callers :
    /\ Done(t) /\ IsBlocking(t) /\ Answered(t)
    /\ "Failure" \in DOMAIN remote[t].status
    /\ ret[t].kind = "raise" /\ ret[t].value = "ActionError"

\* the outcomes of a result in remote order, and the number of log lines
\* that come before those of outcome j
OutcomesOf(res) == << res.transaction_outcome >> \o res.receipts_outcome

RECURSIVE LinesBefore(_, _)
LinesBefore(outs, j) ==
  IF j <= 1 THEN 0
  ELSE LinesBefore(outs, j - 1) + Len(outs[j - 1].outcome.logs)

\* C6: a blocking call whose result carries no Failure returns the result as
\* the provider gave it, and prints the transaction outcome's log lines and
\* then each receipt outcome's, in remote order.
C6_SuccessReturnsTree ==
  \A t \in Callers :
    ( /\ Done(t) /\ IsBlocking(t) /\ Answered(t)
      /\ "Failure" \notin DOMAIN remote[t].status )
    => LET outs == OutcomesOf(remote[t]) IN
       /\ ret[t].kind = "return"
       /\ ret[t].value.transaction_outcome = remote[t].transaction_outcome
       /\ ret[t].value.receipts_outcome = remote[t].receipts_outcome
       /\ ret[t].value = remote[t]
       /\ Len(printed[t]) = LinesBefore(outs, Len(outs) + 1)
       /\ \A j \in 1..Len(outs) : \A k \in 1..Len(outs[j].outcome.logs) :
            printed[t][LinesBefore(outs, j) + k] = "Log: " \o outs[j].outcome.logs[k]

C6_Witness ==
  \E t \in Callers :
    /\ Done(t) /\ IsBlocking(t) /\ ret[t].kind = "return"
    /\ printed[t] = << "Log: t1", "Log: t2", "Log: r1", "Log: r3", "Log: r4" >>

\* C7: a submission issued alone with the nonce at n leaves the nonce at n+1
\* and hands n+1 to signing.
C7_AdvancesOnce ==
  \A t \in Callers :
    (Done(t) /\ IsSubmission(t))
    => /\ nonce = before[t] + 1
       /\ Count(steps[t], "advance") = 1
       /\ Has(steps[t], "sign") => Last(signed) = before[t] + 1
       /\ serialized_tx[t] # NoValue => serialized_tx[t].nonce = before[t] + 1

C7_Witness ==
  \E t \in Callers :
    /\ Done(t) /\ req[t].method = "send_money"
    /\ before[t] = 5 /\ nonce = 6
    /\ ret[t].kind = "return"
    /\ "Failure" \notin DOMAIN ret[t].value.status
    /\ serialized_tx[t].nonce = 6

\* C8: once all submissions have completed, the nonce is its value at
\* construction plus the number of submissions.
C8_NoLostAdvance ==
  (\A t \in Callers : pc[t] \in {"idle", "done"})
  => nonce = nonce0 + submitted

\* C9: a submission that fails in get_status or in signing sends nothing and
\* leaves the nonce advanced by one; every later signing uses a greater nonce.
C9_AbortedState ==
  \A t \in Callers :
    AssemblyAborted(t)
    => /\ ~Has(steps[t], "send_tx") /\ ~Has(steps[t], "send_tx_and_wait")
       /\ ~Answered(t)
       /\ nonce = before[t] + 1
       /\ nonce \in aborted

C9_LaterSigning ==
  \A t \in Callers :
    (pc[t] = "sign" /\ pc'[t] # "sign")
    => \A k \in aborted : Last(signed') > k

C9_AbortLeavesGap == []C9_AbortedState /\ [][C9_LaterSigning]_vars

C9_Witness ==
  /\ \E k \in aborted : ~Has(signed, k) /\ signed # << >> /\ Last(signed) > k
  /\ \E t \in Callers : Done(t) /\ IsSubmission(t) /\ ret[t].kind = "return"

\* C10: a view call whose response carries an error raises ViewFunctionError
\* with that message, decodes nothing and leaves the response as it came.
C10_ViewErrorRaises ==
  \A t \in Callers :
    ( /\ Done(t) /\ req[t].method = "view_function" /\ Answered(t)
      /\ "error" \in DOMAIN remote[t] )
    => /\ ret[t].kind = "raise"
       /\ ret[t].exc = "ViewFunctionError"
       /\ ret[t].value = remote[t].error
       /\ ~Has(steps[t], "decode")
       /\ result[t] = remote[t]

C10_Witness ==
  \E t \in Callers :
    /\ Done(t) /\ req[t].method = "view_function"
    /\ "error" \in DOMAIN remote[t] /\ "result" \in DOMAIN remote[t]
    /\ ret[t].kind = "raise" /\ ret[t].value = "method not found"

IsView(t) == req[t].method = "view_function"

\* C11: view_function leaves the nonce alone and calls neither get_status,
\* signing nor a send; with views made between them, the k-th submission
\* still signs with the nonce at construction plus k.
C11_ViewState ==
  \A t \in Callers :
    IsView(t)
    => /\ nonce = before[t]
       /\ block_hash[t] = NoValue
       /\ serialized_tx[t] = NoValue
       /\ \A i \in 1..Len(steps[t]) :
            steps[t][i] \in {"view_call", "decode", "return", "raise"}

C11_ViewStep ==
  \A t \in Callers :
    ((IsView(t) \/ req'[t].method = "view_function") /\ pc'[t] # pc[t])
    => nonce' = nonce /\ signed' = signed /\ aborted' = aborted

C11_SubmissionsUnaltered ==
  \A t \in Callers :
    (IsSubmission(t) /\ Has(steps[t], "sign"))
    => Last(signed) = nonce0 + submitted

C11_ViewLeavesNonce ==
  /\ [](C11_ViewState /\ C11_SubmissionsUnaltered)
  /\ [][C11_ViewStep]_vars

C11_Witness ==
  \E t \in Callers :
    /\ Done(t) /\ IsView(t) /\ ret[t].kind = "return"
    /\ started = 2 /\ submitted = 1
    /\ signed = << nonce0 + 1 >> /\ nonce = nonce0 + 1

Sends(t) == Count(steps[t], "send_tx") + Count(steps[t], "send_tx_and_wait")
\* the send of t's call raised in the transport
SendRaised(t) ==
  Done(t) /\ IsSubmission(t) /\ Last(steps[t]) \in {"send_tx", "send_tx_and_wait"}

\* C12: a submission invokes its protocol's send at most once, and a
\* transport error or a remote Failure status ends the call with an error.
C12_NoRetry ==
  \A t \in Callers :
    IsSubmission(t)
    => /\ Sends(t) <= 1
       /\ IsBlocking(t) => Count(steps[t], "send_tx") = 0
       /\ IsAsync(t) => Count(steps[t], "send_tx_and_wait") = 0
       /\ pc[t] \in {"logs", "check_status", "check_reply"} => Sends(t) = 1
       /\ SendRaised(t)
          => /\ ret[t].kind = "raise" /\ ret[t].exc = "ProviderError"
             /\ ~Answered(t)
       /\ (Done(t) /\ IsBlocking(t) /\ Answered(t)
           /\ "Failure" \in DOMAIN remote[t].status)
          => ret[t].kind = "raise" /\ Sends(t) = 1

C12_Witness ==
  /\ \E t \in Callers :
       /\ SendRaised(t) /\ IsAsync(t) /\ Sends(t) = 1
       /\ ret[t].kind = "raise" /\ ret[t].exc = "ProviderError"
  /\ started = 2

\* C13: a failed lookup at construction leaves no object to call; a
\* constructed object holds the nonce get_access_key answered.
C13_State ==
  /\ constructed.stage # "live"
     => /\ Quiet /\ started = 0 /\ signed = << >>
        /\ constructed.access_key = NoValue
  /\ constructed.stage = "live"
     => /\ constructed.access_key # NoValue
        /\ constructed.access_key.nonce \in InitialNonces
        /\ nonce0 = constructed.access_key.nonce
        /\ started = 0 => nonce = constructed.access_key.nonce

C13_FailedStays ==
  constructed.stage = "failed" => constructed'.stage = "failed"

C13_FailFast == []C13_State /\ [][C13_FailedStays]_vars

C13_Witness ==
  constructed.stage = "failed" /\ account # NoValue

\* UTF-8 decoding of a byte sequence into code points: one, two and three
\* byte forms; anything else is a decoding error
IsCont(b) == b >= 128 /\ b <= 191

RECURSIVE Utf8Decode(_)
Utf8Decode(bytes) ==
  IF bytes = << >> THEN [ok |-> TRUE, text |-> << >>]
  ELSE LET b == bytes[1]
           n == IF b < 128 THEN 1
                ELSE IF b >= 194 /\ b <= 223 THEN 2
                ELSE IF b >= 224 /\ b <= 239 THEN 3
                ELSE 0
       IN IF n = 0 \/ Len(bytes) < n
             \/ (\E i \in 2..n : ~IsCont(bytes[i]))
          THEN [ok |-> FALSE, text |-> << >>]
          ELSE LET cp == IF n = 1 THEN b
                         ELSE IF n = 2 THEN (b - 192) * 64 + (bytes[2] - 128)
                         ELSE (b - 224) * 4096 + (bytes[2] - 128) * 64
                              + (bytes[3] - 128)
                   rest == Utf8Decode(SubSeq(bytes, n + 1, Len(bytes)))
               IN [ok |-> rest.ok, text |-> << [cp |-> cp] >> \o rest.text]

\* C14: a view response without error comes back with its result replaced by
\* the JSON value of the UTF-8 text of the returned bytes, the other fields
\* kept.
C14_ViewDecodesUtf8 ==
  \A t \in Callers :
    ( /\ Done(t) /\ IsView(t) /\ Answered(t)
      /\ "error" \notin DOMAIN remote[t]
      /\ Utf8Decode(remote[t].result).ok
      /\ json_loads(Utf8Decode(remote[t].result).text).ok )
    => /\ ret[t].kind = "return"
       /\ ret[t].value.result = json_loads(Utf8Decode(remote[t].result).text).value
       /\ \A k \in DOMAIN remote[t] \ {"result"} : ret[t].value[k] = remote[t][k]

SendOf(t) == IF IsBlocking(t) THEN "send_tx_and_wait" ELSE "send_tx"
AssemblySteps == {"advance", "get_status", "sign", "send_tx", "send_tx_and_wait"}

\* C15: a submission advances the nonce, then calls get_status, then signs
\* with the advanced nonce and the hash this call fetched, then sends; each
\* of the four happens at most once and none out of turn.
C15_StepOrder ==
  \A t \in Callers :
    IsSubmission(t)
    => LET order == << "advance", "get_status", "sign", SendOf(t) >> IN
       /\ \A i \in 1..Len(steps[t]) :
            IF i <= 4 THEN steps[t][i] = order[i]
            ELSE steps[t][i] \notin AssemblySteps
       /\ block_hash[t] # NoValue
          => Len(steps[t]) >= 2 /\ block_hash[t].ok
       /\ serialized_tx[t] # NoValue
          => /\ Len(steps[t]) >= 3
             /\ serialized_tx[t].nonce = before[t] + 1
             /\ serialized_tx[t].block_hash = block_hash[t]
             /\ serialized_tx[t].receiver_id = req[t].receiver_id
             /\ serialized_tx[t].actions = req[t].actions
       /\ Answered(t) => Len(steps[t]) >= 4 /\ serialized_tx[t] # NoValue

C15_Witness ==
  \E t \in Callers :
    /\ Done(t) /\ IsAsync(t)
    /\ steps[t] = << "advance", "get_status", "sign", "send_tx", "return" >>
    /\ started = 2 /\ submitted = 2
    /\ serialized_tx[t].block_hash = b58decode(<< 0, 2, 5 >>)
    /\ serialized_tx[t].nonce = nonce0 + 2

\* every log line of a result, as printed, is in place in what t printed
AllPrinted(t) ==
  LET outs == OutcomesOf(remote[t]) IN
  /\ Len(printed[t]) = LinesBefore(outs, Len(outs) + 1)
  /\ \A j \in 1..Len(outs) : \A k \in 1..Len(outs[j].outcome.logs) :
       printed[t][LinesBefore(outs, j) + k] = "Log: " \o outs[j].outcome.logs[k]

\* C16: a blocking call raises exactly when its result's status carries a
\* Failure, whatever the logs; the log lines are all printed, in remote
\* order, before the status is looked at, so before the error is raised.
C16_LogsBeforeRaise ==
  \A t \in Callers :
    (IsBlocking(t) /\ Answered(t))
    => /\ Done(t)
          => /\ ret[t].kind = "raise" <=> "Failure" \in DOMAIN remote[t].status
             /\ ret[t].kind = "return" <=> "Failure" \notin DOMAIN remote[t].status
             /\ AllPrinted(t)
             /\ steps[t][5] = "print"
             /\ steps[t][6] = (IF "Failure" \in DOMAIN remote[t].status
                               THEN "raise" ELSE "return")
       /\ pc[t] = "check_status" => AllPrinted(t) /\ Last(steps[t]) = "print"
       /\ pc[t] = "logs" => printed[t] = << >>

C16_Witness ==
  \E t \in Callers :
    /\ Done(t) /\ IsBlocking(t) /\ Answered(t)
    /\ ret[t].kind = "raise" /\ ret[t].exc = "TransactionError"
    /\ printed[t] = << "Log: t1", "Log: r1", "Log: r2", "Log: r3" >>

\* the other variant of a submission method
Twin(m) ==
  IF m \in BlockingMethods THEN AsyncName(m)
  ELSE CHOOSE b \in BlockingMethods : AsyncName(b) = m

\* C17: for every argument tuple, what a method hands to signing (receiver
\* and ordered action list) is what its other variant builds from the same
\* arguments; the two differ in the protocol only and sign with the nonce
\* advanced once.
C17_VariantsAgree ==
  \A t \in Callers :
    (IsSubmission(t) /\ serialized_tx[t] # NoValue)
    => /\ \E a \in ArgTuples : [method |-> req[t].method] @@ Dispatch(req[t].method, a) = req[t]
       /\ \A a \in ArgTuples :
            ([method |-> req[t].method] @@ Dispatch(req[t].method, a) = req[t])
            => LET twin == Dispatch(Twin(req[t].method), a) IN
               /\ twin.receiver_id = serialized_tx[t].receiver_id
               /\ twin.actions = serialized_tx[t].actions
               /\ twin.protocol # req[t].protocol
       /\ serialized_tx[t].nonce = before[t] + 1
       /\ nonce = before[t] + 1

C17_Witness ==
  \E t \in Callers :
    /\ Done(t) /\ req[t].method = "create_account_async"
    /\ serialized_tx[t] # NoValue
    /\ Len(serialized_tx[t].actions) = 3
    /\ serialized_tx[t].actions = create_account([account_id |-> "bob", amount |-> 100,
                                     public_key |-> "ed25519:pk"]).actions

Kinds(actions) == [i \in 1..Len(actions) |-> actions[i].kind]
BaseName(m) == IF m \in BlockingMethods THEN m ELSE Twin(m)
KeyKind(a) == IF a.public_key # None THEN << "AddKey" >> ELSE << >>

\* the kinds of the actions of a combined operation, in order
CombinedKinds(m, a) ==
  CASE m = "create_and_deploy_contract" ->
         << "CreateAccount", "Transfer", "DeployContract" >> \o KeyKind(a)
    [] m = "create_deploy_and_init_contract" ->
         << "CreateAccount", "Transfer", "DeployContract", "FunctionCall" >> \o KeyKind(a)
    [] m = "deploy_and_init_contract" ->
         << "DeployContract", "FunctionCall" >>

CombinedMethods ==
  { "create_and_deploy_contract", "create_deploy_and_init_contract",
    "deploy_and_init_contract" }

\* C18: the combined operations hand over their actions in the fixed order,
\* with the add-key action last exactly when a public key was given; the
\* function call is the init call and comes right after the deploy.
C18_ActionOrder ==
  \A t \in Callers :
    (IsSubmission(t) /\ BaseName(req[t].method) \in CombinedMethods)
    => /\ \A a \in ArgTuples :
            ([method |-> req[t].method] @@ Dispatch(req[t].method, a) = req[t])
            => /\ Kinds(req[t].actions) = CombinedKinds(BaseName(req[t].method), a)
               /\ \A i \in 1..Len(req[t].actions) :
                    /\ req[t].actions[i].kind = "AddKey"
                       => req[t].actions[i].public_key = a.public_key
                    /\ req[t].actions[i].kind = "FunctionCall"
                       => /\ req[t].actions[i].method_name = a.init_method_name
                          /\ req[t].actions[i - 1].kind = "DeployContract"
       /\ \E a \in ArgTuples :
            [method |-> req[t].method] @@ Dispatch(req[t].method, a) = req[t]
       /\ serialized_tx[t] # NoValue => serialized_tx[t].actions = req[t].actions

C18_Witness ==
  \E t, u \in Callers :
    /\ Done(t) /\ req[t].method = "create_deploy_and_init_contract"
    /\ serialized_tx[t] # NoValue
    /\ Kinds(serialized_tx[t].actions) =
         << "CreateAccount", "Transfer", "DeployContract", "FunctionCall", "AddKey" >>
    /\ u = t

C19_State ==
  constructed.stage = "live"
  => /\ nonce >= nonce0
     /\ constructed.access_key.public_key = SignerKey

C19_Step == constructed.stage = "live" => nonce' >= nonce

C19_FetchStep ==
  \A t \in Callers :
    (pc[t] = "get_account" /\ pc'[t] # "get_account")
    => /\ nonce' = nonce
       /\ constructed' = constructed
       /\ signed' = signed
       /\ ret'[t] = Returned(None) => account' \in AccountStates
       /\ ret'[t] # Returned(None) => account' = account

\* C19: on a constructed account used one operation at a time, the nonce is
\* never below its value at construction and never decreases from one state
\* to the next, whatever the operations and their outcomes; fetch_state
\* replaces only the account snapshot and leaves nonce and public key alone.
C19_NonceMonotone ==
  /\ []C19_State
  /\ [][C19_Step]_vars
  /\ [][C19_FetchStep]_vars

C19_Witness ==
  \E t \in Callers :
    /\ Done(t) /\ req[t].method = "fetch_state"
    /\ ret[t] = Returned(None)
    /\ account \in AccountStates
    /\ nonce > nonce0
    /\ aborted # {}

====
